---- MODULE Spec2Model ----
(***************************************************************************)
(* Model of gdmix/util/io_utils.py: the feature-catalog loader             *)
(* (read_feature_list), the record builder (gen_one_avro_model), the       *)
(* blockwise writer (try_write_avro_blocks) and the two export             *)
(* orchestrators (export_scipy_lr_model_to_avro, export_lr_model_to_avro). *)
(*                                                                         *)
(* Conventions.                                                            *)
(*  - A Python str is a sequence of one-character strings, so that strip,  *)
(*    split and str() are computed and not assumed.                        *)
(*  - A Python list is a sequence; Python index k is TLA+ index k + 1.     *)
(*  - A float is an integer number of tenths (0.5 is 5, 1.1 is 11).        *)
(*  - A call that raises leaves the exception's name in exc.               *)
(***************************************************************************)
EXTENDS Integers, Sequences, FiniteSets, TLC

VARIABLES
    fn,                     \* which export function is called
    model_ids,              \* argument model_ids
    list_of_weight_indices, \* argument (scipy export)
    list_of_weight_values,  \* argument (scipy export)
    biases,                 \* argument (scipy export)
    checkpoint,             \* tensors in the checkpoint (lr export)
    weight_variable_list,   \* argument (lr export)
    model_log_interval,     \* argument: the flush interval
    output_file,            \* the destination resource
    pc,                     \* position in the called function
    feature_list,           \* local
    num_models,             \* local
    i,                      \* local: loop index
    model_avro_records,     \* local: the export buffer
    f,                      \* local: the open file handle
    weights,                \* local (lr export): the weight tensor
    lr_bias,                   \* local (lr export): the bias tensor
    lr_weight_indices,         \* local (lr export): 0 .. numFeatures - 1
    exc,                    \* the exception the call raised, "" if none
    io,                     \* history: kinds of I/O performed so far
    flushes,                \* history: calls of try_write_avro_blocks
    truncations,            \* history: times the destination was created/truncated
    gen_args,               \* arguments of a direct gen_one_avro_model call
    gen_result              \* its result

inputs == <<fn, model_ids, list_of_weight_indices, list_of_weight_values, biases,
            checkpoint, weight_variable_list, model_log_interval>>
lr_locals == <<weights, lr_bias, lr_weight_indices>>
locals == <<feature_list, num_models, i, model_avro_records, f, lr_locals>>
history == <<io, flushes, truncations>>
gen_vars == <<gen_args, gen_result>>
vars == <<inputs, locals, history, gen_vars, output_file, pc, exc>>

---------------------------------------------------------------------------
(* Bounds of the model *)

MaxModels == 5
MaxInterval == 3
MaxLrModels == 2
MaxLen == 2

---------------------------------------------------------------------------
(* Python primitives *)

Whitespace == {" ", "\n", "\t"}

RECURSIVE lstrip(_)
lstrip(s) ==
    IF s # <<>> /\ Head(s) \in Whitespace THEN lstrip(Tail(s)) ELSE s

RECURSIVE rstrip(_)
rstrip(s) ==
    IF s # <<>> /\ s[Len(s)] \in Whitespace THEN rstrip(SubSeq(s, 1, Len(s) - 1)) ELSE s

\* str.strip()
strip(s) == rstrip(lstrip(s))

\* str.split(sep): the fields between the occurrences of sep
RECURSIVE split(_, _)
split(s, sep) ==
    IF \E k \in 1..Len(s) : s[k] = sep
    THEN LET k == CHOOSE k \in 1..Len(s) :
                      s[k] = sep /\ \A j \in 1..(k - 1) : s[j] # sep
         IN  <<SubSeq(s, 1, k - 1)>> \o split(SubSeq(s, k + 1, Len(s)), sep)
    ELSE <<s>>

Digit(d) == CASE d = 0 -> "0" [] d = 1 -> "1" [] d = 2 -> "2" [] d = 3 -> "3"
              [] d = 4 -> "4" [] d = 5 -> "5" [] d = 6 -> "6" [] d = 7 -> "7"
              [] d = 8 -> "8" [] d = 9 -> "9"

\* str(n) of a non-negative int: its decimal digits
RECURSIVE str(_)
str(n) == IF n < 10 THEN <<Digit(n)>> ELSE Append(str(n \div 10), Digit(n % 10))

\* list[k] is defined for -len <= k < len and raises IndexError otherwise
InRange(list, k) == -Len(list) <= k /\ k < Len(list)
At(list, k) == IF k >= 0 THEN list[k + 1] ELSE list[Len(list) + k + 1]

Min(a, b) == IF a <= b THEN a ELSE b

---------------------------------------------------------------------------
(* Feature Catalog Loader *)

read_feature_list(feature_file) ==
    [k \in 1..Len(feature_file) |->
        LET fields == split(strip(feature_file[k]), ",")
        IN  IF Len(fields) = 1 THEN Append(fields, <<>>) ELSE fields]

---------------------------------------------------------------------------
(* Record Builder *)

INTERCEPT == <<"(", "I", "N", "T", "E", "R", "C", "E", "P", "T", ")">>

\* zip(weight_indices, weight_values) stops at the shorter of the two.
gen_one_avro_model_off_by_one(model_id, model_class, weight_indices, weight_values, bias, features) ==
    LET n == Min(Len(weight_indices), Len(weight_values))
    IN  IF \E k \in 1..n : ~InRange(features, weight_indices[k] + 1)
        THEN [exc |-> "IndexError"]
        ELSE [exc |-> "",
              modelId |-> model_id,
              modelClass |-> model_class,
              lossFunction |-> <<>>,
              means |-> <<[name |-> INTERCEPT, term |-> <<>>, value |-> bias]>> \o
                        [k \in 1..n |->
                            LET feat == At(features, weight_indices[k] + 1)
                            IN  [name |-> feat[1], term |-> feat[2],
                                 value |-> weight_values[k]]]]

gen_one_avro_model(model_id, model_class, weight_indices, weight_values, bias, features) ==
    LET n == Min(Len(weight_indices), Len(weight_values))
    IN  IF \E k \in 1..n : ~InRange(features, weight_indices[k])
        THEN [exc |-> "IndexError"]
        ELSE [exc |-> "",
              modelId |-> model_id,
              modelClass |-> model_class,
              lossFunction |-> <<>>,
              means |-> <<[name |-> INTERCEPT, term |-> <<>>, value |-> bias]>> \o
                        [k \in 1..n |->
                            LET feat == At(features, weight_indices[k])
                            IN  [name |-> feat[1], term |-> feat[2],
                                 value |-> weight_values[k]]]]

---------------------------------------------------------------------------
(* The destination resource and the avro container written to it.          *)
(* A resource is [exists, content]; content is the sequence of things      *)
(* written: a container header, blocks of records, or the incomplete       *)
(* remains of a write that failed.                                         *)

Header == [kind |-> "header"]
Block(records) == [kind |-> "block", records |-> records]
Partial == [kind |-> "partial"]

Absent == [exists |-> FALSE, content |-> <<>>]

\* tf.io.gfile.GFile(name, mode): the resource itself is opened lazily, by the
\* first write (mode wb creates or truncates it then) or the first seek.
GFile(mode) ==
    [mode |-> mode, tell |-> 0, seekable |-> FALSE, readable |-> FALSE, written |-> FALSE]

\* What constructing the handle does to the resource: nothing.
gfile_open_eager(mode, file) ==
    IF mode = "wb" THEN [exists |-> TRUE, content |-> <<>>] ELSE file

gfile_open(mode, file) == file

\* f.seek(0, 2) on a handle: the position is the end of the resource.
seek_not_at_end(fo, file) == fo

seek_end(fo, file) == [fo EXCEPT !.tell = Len(file.content)]

\* What a call of fastavro.writer can come to: it returns, or it raises with
\* nothing written, or it raises after part of its output reached the resource.
WriterOutcomes == {"ok", "fail_nothing", "fail_partial"}

\* fastavro.writer(fo, schema, records).  It appends blocks to an existing
\* container when the handle is seekable and not at position 0, and writes a
\* new container header first otherwise.
fastavro_writer(fo, file, records, outcome) ==
    LET creates == ~fo.written /\ (fo.mode = "wb" \/ ~file.exists)
        base == IF creates THEN <<>> ELSE file.content
        appendable == fo.seekable /\ fo.tell # 0
        blocks == IF records = <<>> THEN <<>> ELSE <<Block(records)>>
    IN  IF outcome = "fail_nothing"
        THEN [exc |-> "Exception", file |-> file, fo |-> fo, truncated |-> FALSE]
        ELSE IF appendable /\ ~fo.readable
        THEN [exc |-> "ValueError", file |-> file, fo |-> fo, truncated |-> FALSE]
        ELSE IF outcome = "fail_partial"
        THEN [exc |-> "Exception",
              file |-> [exists |-> TRUE, content |-> Append(base, Partial)],
              fo |-> [fo EXCEPT !.written = TRUE],
              truncated |-> creates]
        ELSE [exc |-> "",
              file |-> [exists |-> TRUE,
                        content |-> base \o (IF appendable THEN <<>> ELSE <<Header>>) \o blocks],
              fo |-> [fo EXCEPT !.written = TRUE, !.tell = IF appendable THEN Len(base) ELSE @],
              truncated |-> creates]

\* fastavro.reader(fo): the records of a container, a header followed by blocks.
RECURSIVE block_records(_)
block_records(content) ==
    IF content = <<>> THEN <<>> ELSE Head(content).records \o block_records(Tail(content))

fastavro_reader(file) ==
    IF /\ file.exists
       /\ file.content # <<>>
       /\ Head(file.content) = Header
       /\ \A k \in 2..Len(file.content) : file.content[k].kind = "block"
    THEN [exc |-> "", records |-> block_records(Tail(file.content))]
    ELSE [exc |-> "Exception", records |-> <<>>]

---------------------------------------------------------------------------
(* Blockwise Writer.  The result's records is the caller's list after the  *)
(* call: records[:] = [] empties that same list.                           *)

try_write_avro_blocks_rebinds(fo, file, records, outcome) ==
    LET w == fastavro_writer(fo, file, records, outcome)
    IN  [exc |-> w.exc, file |-> w.file, fo |-> w.fo, truncated |-> w.truncated,
         records |-> records]

try_write_avro_blocks_swallows(fo, file, records, outcome) ==
    LET w == fastavro_writer(fo, file, records, outcome)
    IN  [exc |-> "", file |-> w.file, fo |-> w.fo, truncated |-> w.truncated,
         records |-> IF w.exc = "" THEN <<>> ELSE records]

try_write_avro_blocks(fo, file, records, outcome) ==
    LET w == fastavro_writer(fo, file, records, outcome)
    IN  [exc |-> w.exc, file |-> w.file, fo |-> w.fo, truncated |-> w.truncated,
         records |-> IF w.exc = "" THEN <<>> ELSE records]

---------------------------------------------------------------------------
(* Inputs of an export call.  Entity k (from 0) has model id 5 * (k + 1),   *)
(* bias k + 1 and weight values 10 * (k + 1) + 1, 10 * (k + 1) + 2, ...,       *)
(* so that the records of different entities differ.                       *)

\* The feature file of the export runs: the lines "f1", "f2,t1", "f3".
FeatureFile ==
    << <<"f", "1", "\n">>, <<"f", "2", ",", "t", "1", "\n">>, <<"f", "3", "\n">> >>

NumFeatures == Len(read_feature_list(FeatureFile))

model_class == "com.linkedin.photon.ml.supervised.classification.LogisticRegressionModel"

ModelIds(n) == [k \in 1..n |-> 5 * k]
Biases(n) == [k \in 1..n |-> k]
WeightValues(n, pattern) == [k \in 1..n |-> [j \in 1..Len(pattern) |-> 10 * k + j]]

\* The weight indices of an entity: in order, out of order, none, out of range.
IndexPatterns == {<<0, 2>>, <<2, 0>>, <<>>, <<NumFeatures>>}

\* A destination left by an earlier export.
StaleRecord == gen_one_avro_model(<<"o", "l", "d">>, model_class, <<>>, <<>>, 0, <<>>)
OldFile == [exists |-> TRUE, content |-> <<Header, Block(<<StaleRecord>>)>>]

NoTensor == [shape |-> <<>>]
NoHandle == GFile("closed")

---------------------------------------------------------------------------
(* Export Orchestrator: export_scipy_lr_model_to_avro *)

\* The arguments of gen_one_avro_model for entity k all exist.
ScipyArgsInRange(k) ==
    /\ InRange(model_ids, k)
    /\ InRange(list_of_weight_indices, k)
    /\ InRange(list_of_weight_values, k)
    /\ InRange(biases, k)

ScipyRecord(k) ==
    gen_one_avro_model(str(At(model_ids, k)), model_class,
                       At(list_of_weight_indices, k), At(list_of_weight_values, k),
                       At(biases, k), feature_list)

\* The call raises e: the file handle is closed and the exception propagates.
Raise(e) ==
    /\ pc' = "error"
    /\ exc' = e
    /\ f' = NoHandle

\* One call of try_write_avro_blocks on handle fo with the buffer buf, then
\* either the caller goes on at next_pc or the exception propagates.  The
\* history keeps what fastavro.writer did (written) and what the caller's
\* list held after the call (records_after).
Flush(fo, file, buf, next_pc, outcome) ==
    LET r == try_write_avro_blocks(fo, file, buf, outcome)
        w == fastavro_writer(fo, file, buf, outcome)
    IN  /\ output_file' = r.file
        /\ model_avro_records' = r.records
        /\ flushes' = Append(flushes, [mode |-> fo.mode, records |-> buf,
                                       written |-> w.exc = "",
                                       before |-> output_file, after |-> r.file,
                                       records_after |-> r.records, raised |-> r.exc])
        /\ truncations' = truncations + (IF file # output_file THEN 1 ELSE 0)
                                      + (IF r.truncated THEN 1 ELSE 0)
        /\ io' = io \cup {"dest_open"}
                    \cup (IF r.file # output_file THEN {"dest_write"} ELSE {})
        /\ IF r.exc = ""
           THEN pc' = next_pc /\ exc' = "" /\ f' = IF next_pc = "loop" THEN r.fo ELSE NoHandle
           ELSE Raise(r.exc)

\* i % model_log_interval == 0
PeriodicFlushDue_never(k, interval) == FALSE

PeriodicFlushDue_off_by_one(k, interval) == (k + 1) % interval = 0

PeriodicFlushDue(k, interval) == k % interval = 0

\* Lines 105-116.
ScipyStart ==
    /\ pc = "start" /\ fn = "scipy"
    /\ feature_list' = read_feature_list(FeatureFile)
    /\ num_models' = Len(biases)
    /\ model_avro_records' = <<>>
    /\ io' = io \cup {"catalog"}
    /\ pc' = "first_write"
    /\ UNCHANGED <<inputs, gen_vars, output_file, exc, i, f, lr_locals, flushes, truncations>>

\* Lines 117-124: the first write, in mode wb.
ScipyFirstWrite ==
    /\ pc = "first_write" /\ fn = "scipy"
    /\ UNCHANGED <<inputs, gen_vars, feature_list, num_models, i, lr_locals>>
    /\ LET opened == gfile_open("wb", output_file)
       IN  IF ~ScipyArgsInRange(0) \/ ScipyRecord(0).exc # ""
           THEN /\ Raise(IF ~ScipyArgsInRange(0) THEN "IndexError" ELSE ScipyRecord(0).exc)
                /\ output_file' = opened
                /\ truncations' = truncations + (IF opened # output_file THEN 1 ELSE 0)
                /\ io' = io \cup {"dest_open"}
                /\ UNCHANGED <<model_avro_records, flushes>>
           ELSE \E outcome \in WriterOutcomes :
                    Flush(GFile("wb"), opened, Append(model_avro_records, ScipyRecord(0)),
                          "open_append", outcome)

\* Lines 127-130: the handle for the remaining models, in mode ab+.
ScipyOpenAppend ==
    /\ pc = "open_append" /\ fn = "scipy"
    /\ IF ~output_file.exists
       THEN Raise("NotFoundError") /\ UNCHANGED i
       ELSE /\ f' = [seek_end(GFile("ab+"), output_file)
                        EXCEPT !.seekable = TRUE, !.readable = TRUE]
            /\ i' = 1
            /\ pc' = "loop"
            /\ exc' = exc
    /\ UNCHANGED <<inputs, gen_vars, output_file, feature_list, num_models,
                   model_avro_records, lr_locals, history>>

\* Lines 131-138: one iteration of the loop.
ScipyLoop ==
    /\ pc = "loop" /\ fn = "scipy"
    /\ i < num_models
    /\ UNCHANGED <<inputs, gen_vars, feature_list, num_models, lr_locals>>
    /\ IF ~ScipyArgsInRange(i)
       THEN /\ Raise("IndexError")
            /\ UNCHANGED <<output_file, model_avro_records, i, history>>
       ELSE IF ScipyRecord(i).exc # ""
       THEN /\ Raise(ScipyRecord(i).exc)
            /\ UNCHANGED <<output_file, model_avro_records, i, history>>
       ELSE IF model_log_interval = 0
       THEN /\ Raise("ZeroDivisionError")
            /\ model_avro_records' = Append(model_avro_records, ScipyRecord(i))
            /\ UNCHANGED <<output_file, i, history>>
       ELSE IF PeriodicFlushDue(i, model_log_interval)
       THEN \E outcome \in WriterOutcomes :
                /\ Flush(f, output_file, Append(model_avro_records, ScipyRecord(i)),
                         "loop", outcome)
                /\ i' = IF pc' = "loop" THEN i + 1 ELSE i
       ELSE /\ i' = i + 1
            /\ model_avro_records' = Append(model_avro_records, ScipyRecord(i))
            /\ UNCHANGED <<output_file, pc, exc, f, history>>

\* Lines 139-142: the final flush, and the return.
ScipyFinalFlush ==
    /\ pc = "loop" /\ fn = "scipy"
    /\ i >= num_models
    /\ UNCHANGED <<inputs, gen_vars, feature_list, num_models, i, lr_locals>>
    /\ IF Len(model_avro_records) # 0
       THEN \E outcome \in WriterOutcomes :
                Flush(f, output_file, model_avro_records, "done", outcome)
       ELSE /\ pc' = "done"
            /\ f' = NoHandle
            /\ UNCHANGED <<output_file, model_avro_records, exc, history>>

---------------------------------------------------------------------------
(* Export Orchestrator: export_lr_model_to_avro *)

\* Line 164: the checkpoint reader is opened.
LrOpenCheckpoint ==
    /\ pc = "start" /\ fn = "lr"
    /\ io' = io \cup {"checkpoint"}
    /\ pc' = "lr_tensors"
    /\ UNCHANGED <<inputs, gen_vars, locals, output_file, exc, flushes, truncations>>

\* Lines 165-169 with the assertion after the tensors are read.
LrReadTensors_asserts_late ==
    /\ pc = "lr_tensors" /\ fn = "lr"
    /\ io' = io \cup {"tensor"}
    /\ IF Len(weight_variable_list) # 1
       THEN Raise("AssertionError") /\ UNCHANGED <<weights, lr_bias>>
       ELSE /\ weights' = checkpoint[weight_variable_list[1]]
            /\ lr_bias' = checkpoint["bias"]
            /\ pc' = "lr_features"
            /\ UNCHANGED <<exc, f>>
    /\ UNCHANGED <<inputs, gen_vars, feature_list, num_models, i, model_avro_records,
                   lr_weight_indices, output_file, flushes, truncations>>

\* Lines 165-169: the assertion on the weight variable list, then the tensors.
\* (Line 169 converts the model ids with str(); only lines after 187 read them.)
LrReadTensors ==
    /\ pc = "lr_tensors" /\ fn = "lr"
    /\ IF Len(weight_variable_list) # 1
       THEN Raise("AssertionError") /\ UNCHANGED <<weights, lr_bias, io>>
       ELSE /\ weights' = checkpoint[weight_variable_list[1]]
            /\ lr_bias' = checkpoint["bias"]
            /\ io' = io \cup {"tensor"}
            /\ pc' = "lr_features"
            /\ UNCHANGED <<exc, f>>
    /\ UNCHANGED <<inputs, gen_vars, feature_list, num_models, i, model_avro_records,
                   lr_weight_indices, output_file, flushes, truncations>>

\* Lines 172-185: the feature list, then the assertions on the shapes.
LrReadFeatures ==
    /\ pc = "lr_features" /\ fn = "lr"
    /\ feature_list' = read_feature_list(FeatureFile)
    /\ num_models' = weights.shape[1]
    /\ io' = io \cup {"catalog"}
    /\ IF weights.shape[2] # Len(read_feature_list(FeatureFile))
       THEN Raise("AssertionError") /\ UNCHANGED <<lr_weight_indices, model_avro_records>>
       ELSE IF weights.shape[1] # Len(model_ids)
       THEN Raise("AssertionError") /\ UNCHANGED <<lr_weight_indices, model_avro_records>>
       ELSE /\ lr_weight_indices' = [k \in 1..weights.shape[2] |-> k - 1]
            /\ model_avro_records' = <<>>
            /\ pc' = "lr_first_write"
            /\ UNCHANGED <<exc, f>>
    /\ UNCHANGED <<inputs, gen_vars, i, weights, lr_bias, output_file, flushes, truncations>>

\* Line 187: tf.io.gfile has no attribute Gfile (the class is GFile), so the
\* with statement raises AttributeError and lines 188-209 are never reached.
LrFirstWrite ==
    /\ pc = "lr_first_write" /\ fn = "lr"
    /\ Raise("AttributeError")
    /\ UNCHANGED <<inputs, gen_vars, feature_list, num_models, i, model_avro_records,
                   lr_locals, output_file, history>>

---------------------------------------------------------------------------
(* The export calls *)

Idle ==
    /\ feature_list = <<>>
    /\ num_models = 0
    /\ i = 0
    /\ model_avro_records = <<>>
    /\ f = NoHandle
    /\ weights = NoTensor
    /\ lr_bias = NoTensor
    /\ lr_weight_indices = <<>>
    /\ exc = ""
    /\ io = {}
    /\ flushes = <<>>
    /\ truncations = 0

InitScipy ==
    /\ fn = "scipy"
    /\ \E n \in 0..MaxModels : model_ids = ModelIds(n)
    /\ \E n \in 0..MaxModels : biases = Biases(n)
    /\ \E n \in 0..MaxModels : \E pattern \in IndexPatterns :
           /\ list_of_weight_indices = [k \in 1..n |-> pattern]
           /\ list_of_weight_values = WeightValues(n, pattern)
    /\ checkpoint = <<>>
    /\ weight_variable_list = <<>>

InitLr ==
    /\ fn = "lr"
    /\ \E n \in 0..MaxLrModels : model_ids = ModelIds(n)
    /\ \E rows \in 0..MaxLrModels : \E cols \in (NumFeatures - 1)..(NumFeatures + 1) :
       \E n \in 0..MaxLrModels :
           checkpoint = [global_weights |-> [shape |-> <<rows, cols>>],
                         bias |-> [shape |-> <<n>>]]
    /\ \E n \in 0..2 : weight_variable_list = [k \in 1..n |-> "global_weights"]
    /\ biases = <<>>
    /\ list_of_weight_indices = <<>>
    /\ list_of_weight_values = <<>>

Init ==
    /\ InitScipy \/ InitLr
    /\ model_log_interval \in 0..MaxInterval
    /\ output_file \in {Absent, OldFile}
    /\ pc = "start"
    /\ Idle
    /\ gen_args = <<>>
    /\ gen_result = <<>>

Next ==
    \/ ScipyStart
    \/ ScipyFirstWrite
    \/ ScipyOpenAppend
    \/ ScipyLoop
    \/ ScipyFinalFlush
    \/ LrOpenCheckpoint
    \/ LrReadTensors
    \/ LrReadFeatures
    \/ LrFirstWrite

Spec == Init /\ [][Next]_vars

---------------------------------------------------------------------------
(* Direct calls of the Record Builder on a loaded feature catalog *)

\* A feature file with a term after a blank, a line of three fields and an
\* empty line.
OddFeatureFile ==
    << <<"a", ",", " ", "b", "\n">>, <<"x", ",", "y", ",", "z">>, <<"\n">> >>

FeatureFiles == {FeatureFile, OddFeatureFile}

SeqsUpTo(n, S) == UNION {[1..k -> S] : k \in 0..n}

GenInit ==
    /\ fn = "gen"
    /\ pc = "gen_start"
    /\ gen_args \in [model_id : {<<"m", "1">>},
                     weight_indices : SeqsUpTo(MaxLen, -1..NumFeatures),
                     weight_values : SeqsUpTo(MaxLen, {11, 33}),
                     bias : {5},
                     feature_file : FeatureFiles]
    /\ gen_result = <<>>
    /\ model_ids = <<>>
    /\ biases = <<>>
    /\ list_of_weight_indices = <<>>
    /\ list_of_weight_values = <<>>
    /\ checkpoint = <<>>
    /\ weight_variable_list = <<>>
    /\ model_log_interval = 1
    /\ output_file = Absent
    /\ Idle

GenReadFeatures ==
    /\ pc = "gen_start"
    /\ feature_list' = read_feature_list(gen_args.feature_file)
    /\ pc' = "gen_build"
    /\ UNCHANGED <<inputs, gen_vars, num_models, i, model_avro_records, f, lr_locals,
                   history, output_file, exc>>

GenBuild ==
    /\ pc = "gen_build"
    /\ gen_result' = gen_one_avro_model(gen_args.model_id, model_class,
                                        gen_args.weight_indices, gen_args.weight_values,
                                        gen_args.bias, feature_list)
    /\ pc' = "gen_done"
    /\ UNCHANGED <<inputs, gen_args, locals, history, output_file, exc>>

GenNext == GenReadFeatures \/ GenBuild

SpecGen == GenInit /\ [][GenNext]_vars

---------------------------------------------------------------------------
(* Vocabulary of the properties *)

IsPrefix(a, b) == Len(a) <= Len(b) /\ SubSeq(b, 1, Len(a)) = a

Catalog == read_feature_list(FeatureFile)

\* The record of entity k (from 0) of a scipy export, from the arguments alone.
EntityRecord(k) ==
    gen_one_avro_model(str(At(model_ids, k)), model_class,
                       At(list_of_weight_indices, k), At(list_of_weight_values, k),
                       At(biases, k), Catalog)

EntityRecords(lo, hi) == [j \in 1..(hi - lo + 1) |-> EntityRecord(lo + j - 1)]

NumModels ==
    IF fn = "scipy" THEN Len(biases)
    ELSE IF fn = "lr" THEN checkpoint["global_weights"].shape[1]
    ELSE 0

\* The lengths the specification validates agree, and every weight index names
\* a feature.
LengthsAgree ==
    IF fn = "scipy"
    THEN /\ Len(model_ids) = Len(biases)
         /\ Len(list_of_weight_indices) = Len(biases)
    ELSE /\ checkpoint["global_weights"].shape[1] = Len(model_ids)
         /\ checkpoint["bias"].shape[1] = Len(model_ids)
         /\ checkpoint["global_weights"].shape[2] = NumFeatures

ValidCall ==
    /\ fn \in {"scipy", "lr"}
    /\ LengthsAgree
    /\ fn = "lr" => Len(weight_variable_list) = 1
    /\ fn = "scipy" =>
           \A k \in 1..Len(list_of_weight_indices) :
               \A j \in 1..Len(list_of_weight_indices[k]) :
                   list_of_weight_indices[k][j] \in 0..(NumFeatures - 1)

Terminated == pc \in {"done", "error"}

NoWriteFailed == \A k \in 1..Len(flushes) : flushes[k].written

RECURSIVE FlushedRecords(_)
FlushedRecords(log) ==
    IF log = <<>> THEN <<>>
    ELSE (IF Head(log).written THEN Head(log).records ELSE <<>>) \o FlushedRecords(Tail(log))

---------------------------------------------------------------------------
(* The properties *)

\* C1: a call of either export function with valid arguments, at least one
\* model, a flush interval of at least 1 and no failing write ends in DONE with
\* the destination holding exactly the records of entities 0 .. numModels - 1
\* in index order, each flushed once, whatever the flush interval.
C1_ExportWritesEveryRecordOnce ==
    (ValidCall /\ NumModels >= 1 /\ model_log_interval >= 1 /\ Terminated /\ NoWriteFailed)
    => /\ pc = "done"
       /\ fastavro_reader(output_file).exc = ""
       /\ Len(fastavro_reader(output_file).records) = NumModels
       /\ \A k \in 1..NumModels :
              fastavro_reader(output_file).records[k].modelId = str(model_ids[k])
       /\ fn = "scipy" => fastavro_reader(output_file).records = EntityRecords(0, NumModels - 1)
       /\ FlushedRecords(flushes) = fastavro_reader(output_file).records

\* C2: the destination is created or truncated at most once in a call, only by
\* the first write (the mode wb write of entity 0), and exactly once in a call
\* that reaches DONE; every later flush is in mode ab+ and adds its block after
\* everything the destination already held.
C2_TruncatedOnceThenAppended ==
    /\ truncations = IF flushes # <<>> /\ flushes[1].after # flushes[1].before THEN 1 ELSE 0
    /\ pc = "done" => truncations = 1
    /\ \A k \in 1..Len(flushes) :
           /\ k = 1 => flushes[k].mode = "wb" /\ flushes[k].records = <<EntityRecord(0)>>
           /\ k > 1 => /\ flushes[k].mode = "ab+"
                       /\ IsPrefix(flushes[k].before.content, flushes[k].after.content)
                       /\ flushes[k].written =>
                              flushes[k].after.content =
                                  Append(flushes[k].before.content, Block(flushes[k].records))

C2_Witness ==
    /\ pc = "done"
    /\ Len(flushes) = 3
    /\ flushes[1].before = OldFile
    /\ truncations = 1

\* C3: a call whose lengths disagree (biases, model ids, weight rows), or whose
\* weight columns differ from the number of features, never reaches DONE and
\* never creates, truncates or appends to the destination or flushes a record.
C3_MismatchFailsBeforeAnyWrite ==
    (fn \in {"scipy", "lr"} /\ ~LengthsAgree)
    => /\ pc # "done"
       /\ flushes = <<>>
       /\ truncations = 0
       /\ "dest_write" \notin io

\* C4: a call with numModels = 0 never gets past the first write: it neither
\* reaches DONE nor flushes, and the destination is left as it was.
C4_NoModelsFailsBeforeAnyWrite ==
    (fn \in {"scipy", "lr"} /\ NumModels = 0)
    => /\ pc \in {"start", "first_write", "lr_tensors", "lr_features", "lr_first_write", "error"}
       /\ flushes = <<>>
       /\ truncations = 0
       /\ "dest_write" \notin io
       /\ output_file \in {Absent, OldFile}

C4_Witness ==
    /\ fn = "scipy"
    /\ Len(biases) = 0
    /\ Len(model_ids) > 0
    /\ pc = "error"
    /\ exc = "IndexError"
    /\ output_file = OldFile

\* The entity indexes after which a scipy export of n models flushes: 0 (the
\* first write), every later index that is a multiple of the interval, and
\* the last index (the final flush, when that one is not a multiple).
FlushPoints(n, interval) ==
    {0} \cup {k \in 1..(n - 1) : k % interval = 0} \cup {n - 1}

\* The k-th smallest flush point, -1 for k = 0.
KthPoint(P, k) ==
    IF k = 0 THEN -1 ELSE CHOOSE x \in P : Cardinality({y \in P : y < x}) = k - 1

\* C5: a scipy export that reaches DONE with numModels >= 1 and a flush
\* interval >= 1 has flushed exactly: entity 0 alone in mode wb; then, in mode
\* ab+, one block after each index i in 1 .. numModels - 1 with
\* i mod interval = 0; then one final block if and only if records remain.
\* One model gives one flush; interval 2 with 5 models gives 3 flushes, the
\* last holding entities 3 and 4.
C5_FlushesAreFirstPeriodicFinal ==
    (fn = "scipy" /\ pc = "done" /\ model_log_interval >= 1 /\ Len(biases) >= 1)
    => LET P == FlushPoints(Len(biases), model_log_interval)
       IN  /\ Len(flushes) = Cardinality(P)
           /\ \A k \in 1..Len(flushes) :
                  /\ flushes[k].records = EntityRecords(KthPoint(P, k - 1) + 1, KthPoint(P, k))
                  /\ flushes[k].mode = IF k = 1 THEN "wb" ELSE "ab+"
                  /\ flushes[k].written
           /\ Len(biases) = 1 => Len(flushes) = 1
           /\ (Len(biases) = 5 /\ model_log_interval = 2) =>
                  /\ Len(flushes) = 3
                  /\ flushes[1].records = EntityRecords(0, 0)
                  /\ flushes[2].records = EntityRecords(1, 2)
                  /\ flushes[3].records = EntityRecords(3, 4)

C5_Witness ==
    /\ fn = "scipy"
    /\ pc = "done"
    /\ model_log_interval = 2
    /\ Len(biases) = 5
    /\ Len(flushes) = 3

\* C6: try_write_avro_blocks leaves the caller's list empty when
\* fastavro.writer returned, and when it raised it raises in turn and leaves
\* the caller's list holding the records it held before the call.
C6_BufferClearedOnlyOnSuccess ==
    \A k \in 1..Len(flushes) :
        /\ flushes[k].written =>
               flushes[k].raised = "" /\ Len(flushes[k].records_after) = 0
        /\ ~flushes[k].written =>
               flushes[k].raised # "" /\ flushes[k].records_after = flushes[k].records

C6_Witness ==
    /\ Len(flushes) = 3
    /\ flushes[2].written /\ Len(flushes[2].records) = 2
    /\ ~flushes[3].written /\ Len(flushes[3].records_after) = 2

\* C7 as stated: an lr export given a weight variable list whose length is
\* not 1 has done no I/O at all when it fails.
C7_NoIoBeforeBagCheck ==
    (fn = "lr" /\ Len(weight_variable_list) # 1 /\ pc = "error") => io = {}

\* C7 as amended: such a call fails with an AssertionError having opened the
\* checkpoint reader and done nothing else: no tensor is read, the feature
\* catalog is not read and the destination is neither opened nor written.
C7_OnlyCheckpointOpenedBeforeBagCheck ==
    (fn = "lr" /\ Len(weight_variable_list) # 1)
    => /\ pc \in {"start", "lr_tensors", "error"}
       /\ pc = "error" => exc = "AssertionError" /\ io = {"checkpoint"}
       /\ io \subseteq {"checkpoint"}
       /\ flushes = <<>>
       /\ truncations = 0
       /\ output_file \in {Absent, OldFile}

C7_Witness ==
    /\ fn = "lr"
    /\ Len(weight_variable_list) = 2
    /\ pc = "error"
    /\ exc = "AssertionError"
    /\ io = {"checkpoint"}

\* C8: for weight indices and values of equal length, every index naming an
\* entry of the catalog, the built record has 1 + (number of pairs) means;
\* the first is the intercept ("(INTERCEPT)", "", bias) and mean 1 + k has the
\* name and term of the catalog entry at the k-th index and the k-th value,
\* in the order given.  The catalog f1 / f2,t1 / f3 with bias 0.5, indices
\* [0, 2] and values [1.1, 3.3] gives (INTERCEPT) 0.5, f1 1.1, f3 3.3.
C8_RecordIsInterceptThenPairsInOrder ==
    (/\ pc = "gen_done"
     /\ Len(gen_args.weight_indices) = Len(gen_args.weight_values)
     /\ \A k \in 1..Len(gen_args.weight_indices) :
            gen_args.weight_indices[k] \in 0..(Len(feature_list) - 1))
    => /\ gen_result.exc = ""
       /\ Len(gen_result.means) = 1 + Len(gen_args.weight_indices)
       /\ gen_result.means[1] = [name |-> INTERCEPT, term |-> <<>>, value |-> gen_args.bias]
       /\ \A k \in 1..Len(gen_args.weight_indices) :
              gen_result.means[1 + k] =
                  [name |-> feature_list[gen_args.weight_indices[k] + 1][1],
                   term |-> feature_list[gen_args.weight_indices[k] + 1][2],
                   value |-> gen_args.weight_values[k]]
       /\ (/\ gen_args.feature_file = FeatureFile
           /\ gen_args.weight_indices = <<0, 2>>
           /\ gen_args.weight_values = <<11, 33>>)
          => gen_result.means =
                 <<[name |-> INTERCEPT, term |-> <<>>, value |-> 5],
                   [name |-> <<"f", "1">>, term |-> <<>>, value |-> 11],
                   [name |-> <<"f", "3">>, term |-> <<>>, value |-> 33]>>

C8_Witness ==
    /\ pc = "gen_done"
    /\ gen_args.feature_file = FeatureFile
    /\ gen_args.weight_indices = <<0, 2>>
    /\ gen_args.weight_values = <<11, 33>>
    /\ gen_result.exc = ""
    /\ Len(gen_result.means) = 3
    /\ gen_result.means[3].name = <<"f", "3">>

\* C9: with a flush interval >= 1 the export buffer never holds more records
\* than the interval, in any state and at any flush; it is empty after every
\* flush that succeeded and when the export is DONE.
C9_BufferBoundedByInterval ==
    (fn \in {"scipy", "lr"} /\ model_log_interval >= 1)
    => /\ Len(model_avro_records) <= model_log_interval
       /\ \A k \in 1..Len(flushes) :
              /\ Len(flushes[k].records) <= model_log_interval
              /\ flushes[k].written => flushes[k].records_after = <<>>
       /\ pc = "done" => model_avro_records = <<>>

C9_Witness ==
    /\ fn = "scipy"
    /\ model_log_interval = 3
    /\ Len(biases) = 5
    /\ Len(flushes) = 2
    /\ Len(flushes[2].records) = 3
    /\ flushes[2].written
    /\ model_avro_records = <<>>

\* C10: a flush that fails is the last thing the call does: the call is in
\* ERROR with the exception raised, the flush is not tried again, the buffer
\* holds what it held at that flush, the call never reaches DONE, and what
\* earlier flushes wrote is still at the head of the destination.
C10_FailedFlushEndsTheCall ==
    \A k \in 1..Len(flushes) :
        ~flushes[k].written =>
            /\ k = Len(flushes)
            /\ pc = "error"
            /\ exc # ""
            /\ model_avro_records = flushes[k].records
            /\ output_file = flushes[k].after
            /\ k > 1 => /\ IsPrefix(flushes[k].before.content, output_file.content)
                        /\ fastavro_reader(flushes[k].before).records
                               = FlushedRecords(flushes)

C10_Witness ==
    /\ Len(flushes) = 3
    /\ ~flushes[3].written
    /\ output_file.content[Len(output_file.content)] = Partial
    /\ Len(FlushedRecords(flushes)) = 3
    /\ pc = "error"

====
